---- MODULE Spec2Model ----
(***************************************************************************)
(* Model of src/transactions/InflationOpFrame.cpp (owlchain/dm-core): the  *)
(* inflation operation in its two schemes, origInflationOpFrame and        *)
(* commonBudgetInflationOpFrame, applied to a ledger header and a set of   *)
(* accounts through a scoped LedgerDelta.                                  *)
(*                                                                         *)
(* TLC's integers are 32 bits wide, so the 64-bit quantities of the code   *)
(* are scaled: INT64_MAX stands for the largest int64_t, and the two       *)
(* fixed-point fractions the code divides by TRILLION are written in       *)
(* lowest terms that fit (190721000/10^12 = 190721/10^9 and                *)
(* 500000000/10^12 = 1/2000); floor(a * n / d) is unchanged by reducing    *)
(* n / d.                                                                  *)
(***************************************************************************)
EXTENDS Integers, Sequences, FiniteSets

\* ------------------------------------------------------------ constants

INFLATION_FREQUENCY == 60 * 5

\* INFLATION_RATE_TRILLIONTHS / 1000 and TRILLION / 1000
INFLATION_RATE_BILLIONTHS == 190721
BILLION == 1000000000

\* TRILLION / INFLATION_WIN_MIN_PERCENT
INFLATION_WIN_MIN_DIVISOR == 2000

INFLATION_NUM_WINNERS == 2000

INFLATION_START_TIME == 1404172800

\* ------------------------------------------------------------ bounds

\* the largest balance an int64_t field holds, scaled to the model
INT64_MAX == 11000

\* rows one vote tally returns at most
MaxRows == 2

\* periods by which the close time of the model runs ahead of the start time
MaxPeriods == 1

\* ------------------------------------------------------------ universe

AccountIDs == {"a1", "a2", "cb"}

\* vote weights a tally row carries
VoteVals == {2, 100, 3000}

\* ledger close times: one second before the first distribution is due, then
\* the start, middle and end of each period up to MaxPeriods
CloseTimes ==
    {INFLATION_START_TIME - 1}
    \cup {INFLATION_START_TIME + p * INFLATION_FREQUENCY + d :
             p \in 0..MaxPeriods, d \in {0, INFLATION_FREQUENCY - 1}}

VARIABLES
    header,          \* the parent delta's ledger header
    accounts,        \* the parent's account balances, by account id
    ledgerVersion,   \* ledgerManager.getCurrentLedgerVersion()
    cfg,             \* app.getConfig(): the COMMON_BUDGET_* settings
    pc,              \* position of the running operation
    lcl,             \* inflationDelta.getHeader()
    dAccounts,       \* account balances as stored through inflationDelta
    winners,         \* std::vector<InflationVotes> winners
    idx,             \* winners already visited by the crediting loop
    totalVotes,
    inflationAmount,
    amountToDole,
    leftAfterDole,
    code,            \* innerResult.code()
    payouts,         \* innerResult.payouts()
    ret,             \* how the last invocation ended
    pre,             \* header and accounts when the invocation began
    overflowHit,     \* the invocation met a credit past INT64_MAX
    dueAtClose,      \* periods due when the close time was last set
    succSince        \* successes since the close time was last set

locals == <<winners, idx, totalVotes, inflationAmount, amountToDole, leftAfterDole>>
parent == <<header, accounts>>
config == <<ledgerVersion, cfg>>
history == <<dueAtClose, succSince>>
vars == <<header, accounts, ledgerVersion, cfg, pc, lcl, dAccounts, winners, idx,
          totalVotes, inflationAmount, amountToDole, leftAfterDole, code, payouts,
          ret, pre, overflowHit, dueAtClose, succSince>>

\* ------------------------------------------------------------ helpers

\* bigDivide(A, B, C, ROUND_DOWN) for A >= 0, B >= 0, C > 0
bigDivide(A, B, C) == (A * B) \div C

\* AccountFrame::addBalance: the new balance, or a failure when it leaves
\* the range of the field
addBalance(balance, delta) ==
    IF delta = 0 THEN [ok |-> TRUE, balance |-> balance]
    ELSE IF balance + delta > INT64_MAX \/ balance + delta < 0
         THEN [ok |-> FALSE, balance |-> balance]
         ELSE [ok |-> TRUE, balance |-> balance + delta]

\* AccountFrame::loadAccount(delta, id, db): whether the account exists
Resolves(accts, id) == id \in DOMAIN accts

\* mutant of inflationTime: the sequence number is not scaled by the frequency
inflationTime_Unscaled(seq) == INFLATION_START_TIME + seq

\* time_t inflationTime = (INFLATION_START_TIME + seq * INFLATION_FREQUENCY);
\* seq stays far below the values at which the uint64_t product wraps
inflationTime(seq) == INFLATION_START_TIME + seq * INFLATION_FREQUENCY

\* mutant of NotTime: the close time equal to the inflation time is early too
NotTime_Inclusive(h) == h.closeTime <= inflationTime(h.inflationSeq)

\* if (closeTime < inflationTime)
NotTime(h) == h.closeTime < inflationTime(h.inflationSeq)

RECURSIVE SumVotes(_)
SumVotes(rows) ==
    IF rows = <<>> THEN 0 ELSE Head(rows).mVotes + SumVotes(Tail(rows))

InflationVotes == [mInflationDest : AccountIDs, mVotes : VoteVals]

\* What the vote tally can return: at most `limit' rows, one per
\* destination, by descending votes, none for an account in `excl', the
\* votes together at most the eligible supply `supply'.
TallyRows(limit, excl, supply) ==
    LET n == IF limit < MaxRows THEN limit ELSE MaxRows
        all == UNION {[1..k -> InflationVotes] : k \in 0..n}
    IN {rows \in all :
          /\ \A i, j \in 1..Len(rows) :
                i < j => /\ rows[i].mInflationDest # rows[j].mInflationDest
                         /\ rows[i].mVotes >= rows[j].mVotes
          /\ \A i \in 1..Len(rows) : rows[i].mInflationDest \notin excl
          /\ SumVotes(rows) <= supply}

\* The callback handed to the tally: rows are kept while they reach
\* minBalance, and the first that does not ends the enumeration.
RECURSIVE KeepWinners(_, _)
KeepWinners(rows, minBalance) ==
    IF rows = <<>> THEN <<>>
    ELSE IF Head(rows).mVotes >= minBalance
         THEN <<Head(rows)>> \o KeepWinners(Tail(rows), minBalance)
         ELSE <<>>

RECURSIVE SumBalances(_, _)
SumBalances(accts, ids) ==
    IF ids = {} THEN 0
    ELSE LET a == CHOOSE x \in ids : TRUE
         IN (IF Resolves(accts, a) THEN accts[a] ELSE 0)
            + SumBalances(accts, ids \ {a})

Payout(dest, amount) == [destination |-> dest, amount |-> amount]


\* periods for which a distribution is due and not yet made
PeriodsDue(h) ==
    IF h.closeTime < INFLATION_START_TIME + h.inflationSeq * INFLATION_FREQUENCY
    THEN 0
    ELSE (h.closeTime - INFLATION_START_TIME) \div INFLATION_FREQUENCY
         + 1 - h.inflationSeq

\* ------------------------------------------------------------ initial states

InitialBalances ==
    {b \in [AccountIDs -> {1000, INT64_MAX - 2}] : b["a2"] = 1000}

InitialAccounts ==
    {[a \in ids |-> b[a]] :
        b \in InitialBalances,
        ids \in {AccountIDs, AccountIDs \ {"a2"}, AccountIDs \ {"cb"}}}

Configs ==
    {[COMMON_BUDGET_ACCOUNT_ID |-> "",
      COMMON_BUDGET_INFLATION_EXCLUDED_ACCOUNTS |-> {},
      COMMON_BUDGET_INFLATION_MIN_BALANCE |-> 0,
      COMMON_BUDGET_INFLATION_MAX_ACCOUNTS |-> 0]}
    \cup [COMMON_BUDGET_ACCOUNT_ID : {"cb"},
          COMMON_BUDGET_INFLATION_EXCLUDED_ACCOUNTS : {{}, {"a2"}},
          COMMON_BUDGET_INFLATION_MIN_BALANCE : {100},
          COMMON_BUDGET_INFLATION_MAX_ACCOUNTS : {2}]

Init ==
    /\ header \in [totalCoins : {0, 6000}, feePool : {0, 10},
                   inflationSeq : {0},
                   closeTime : {INFLATION_START_TIME - 1, INFLATION_START_TIME}]
    /\ accounts \in InitialAccounts
    /\ cfg \in Configs
    /\ ledgerVersion \in {7, 8}
    /\ cfg.COMMON_BUDGET_ACCOUNT_ID # "" => ledgerVersion = 8
    /\ pc = "idle"
    /\ lcl = header
    /\ dAccounts = accounts
    /\ winners = <<>>
    /\ idx = 0
    /\ totalVotes = 0
    /\ inflationAmount = 0
    /\ amountToDole = 0
    /\ leftAfterDole = 0
    /\ code = "unset"
    /\ payouts = <<>>
    /\ ret = "none"
    /\ pre = [header |-> header, accounts |-> accounts]
    /\ overflowHit = FALSE
    /\ dueAtClose = PeriodsDue(header)
    /\ succSince = 0

\* ------------------------------------------------------------ both schemes

\* LedgerDelta inflationDelta(delta), and the time check that follows it
Begin(next) ==
    /\ pc = "idle"
    /\ pre' = [header |-> header, accounts |-> accounts]
    /\ lcl' = header
    /\ dAccounts' = accounts
    /\ winners' = <<>>
    /\ idx' = 0
    /\ totalVotes' = 0
    /\ inflationAmount' = 0
    /\ amountToDole' = 0
    /\ leftAfterDole' = 0
    /\ payouts' = <<>>
    /\ overflowHit' = FALSE
    /\ IF NotTime(header)
       THEN /\ code' = "INFLATION_NOT_TIME"
            /\ ret' = "false"
            /\ pc' = "idle"
       ELSE /\ code' = "unset"
            /\ ret' = "none"
            /\ pc' = next
    /\ UNCHANGED <<parent, config, history>>

\* mutant of nextSeq: the sequence number advances twice
nextSeq_Twice(seq) == seq + 2

\* lcl.inflationSeq++
nextSeq(seq) == seq + 1

\* mutant of toDoleThisWinner: the share is rounded up
toDoleThisWinner_RoundUp(w) ==
    (amountToDole * w.mVotes + totalVotes - 1) \div totalVotes

\* int64 toDoleThisWinner = bigDivide(amountToDole, w.mVotes, totalVotes, ROUND_DOWN)
toDoleThisWinner(w) == bigDivide(amountToDole, w.mVotes, totalVotes)

\* mutant of creditThrows: the result of addBalance is not looked at
creditThrows_Ignored(r) == FALSE

\* if (!winner->addBalance(toDoleThisWinner)) throw std::runtime_error(...)
creditThrows(r) == ~r.ok

\* inflationDelta.commit(): the header and the stored accounts reach the parent
commit(h, accts) ==
    /\ header' = h
    /\ accounts' = accts

\* the exception leaves the function: inflationDelta is dropped uncommitted
throw ==
    /\ pc' = "thrown"
    /\ ret' = "threw"
    /\ UNCHANGED <<parent, history>>


\* ------------------------------------------------------------ legacy scheme

\* doApply with COMMON_BUDGET_ACCOUNT_ID == "": origInflationOpFrame up to
\* the return of INFLATION_NOT_TIME
origBegin ==
    /\ cfg.COMMON_BUDGET_ACCOUNT_ID = ""
    /\ Begin("origTally")

\* totalVotes, minBalance, the tally, inflationAmount and amountToDole; then
\* the fee pool is emptied and the sequence number advanced in the delta
origTally ==
    /\ pc = "origTally"
    /\ LET minBalance == bigDivide(lcl.totalCoins, 1, INFLATION_WIN_MIN_DIVISOR)
       IN \E rows \in TallyRows(INFLATION_NUM_WINNERS, {}, lcl.totalCoins) :
             winners' = KeepWinners(rows, minBalance)
    /\ totalVotes' = lcl.totalCoins
    /\ inflationAmount' =
          bigDivide(lcl.totalCoins, INFLATION_RATE_BILLIONTHS, BILLION)
    /\ amountToDole' = inflationAmount' + lcl.feePool
    /\ lcl' = [lcl EXCEPT !.feePool = 0, !.inflationSeq = nextSeq(@)]
    /\ code' = "INFLATION_SUCCESS"
    /\ leftAfterDole' = amountToDole'
    /\ idx' = 0
    /\ pc' = "origLoop"
    /\ UNCHANGED <<parent, config, history, dAccounts, payouts, ret, pre,
                   overflowHit>>

\* mutant of coinsAfterCredit: the payout is added whatever the version
coinsAfterCredit_Ungated(coins, amount) == coins + amount

\* if (ledgerManager.getCurrentLedgerVersion() <= 7) lcl.totalCoins += toDoleThisWinner
coinsAfterCredit(coins, amount) ==
    IF ledgerVersion <= 7 THEN coins + amount ELSE coins

\* one pass of the loop over winners
origCredit ==
    /\ pc = "origLoop"
    /\ idx < Len(winners)
    /\ LET w == winners[idx + 1]
           dest == w.mInflationDest
           amount == toDoleThisWinner(w)
       IN IF amount = 0 \/ ~Resolves(dAccounts, dest)
          THEN /\ idx' = idx + 1
               /\ UNCHANGED <<parent, history, pc, lcl, dAccounts,
                              leftAfterDole, payouts, ret, overflowHit>>
          ELSE LET r == addBalance(dAccounts[dest], amount)
               IN /\ leftAfterDole' = leftAfterDole - amount
                  /\ lcl' = [lcl EXCEPT !.totalCoins = coinsAfterCredit(@, amount)]
                  /\ overflowHit' = (dAccounts[dest] + amount > INT64_MAX)
                  /\ IF creditThrows(r)
                     THEN /\ throw
                          /\ UNCHANGED <<idx, dAccounts, payouts>>
                     ELSE /\ dAccounts' = [dAccounts EXCEPT ![dest] = r.balance]
                          /\ payouts' = Append(payouts, Payout(dest, amount))
                          /\ idx' = idx + 1
                          /\ UNCHANGED <<parent, history, pc, ret>>
    /\ UNCHANGED <<config, winners, totalVotes, inflationAmount, amountToDole,
                   code, pre>>

\* mutant of feePoolAfter: the leftover is not put back
feePoolAfter_Dropped(pool, left) == pool

\* lcl.feePool += leftAfterDole
feePoolAfter(pool, left) == pool + left

\* if (ledgerManager.getCurrentLedgerVersion() > 7) lcl.totalCoins += inflationAmount
coinsAfterLoop(coins) ==
    IF ledgerVersion > 7 THEN coins + inflationAmount ELSE coins

\* after the loop: the leftover returns to the fee pool, the delta commits
origFinish ==
    /\ pc = "origLoop"
    /\ idx = Len(winners)
    /\ lcl' = [lcl EXCEPT !.feePool = feePoolAfter(@, leftAfterDole),
                          !.totalCoins = coinsAfterLoop(@)]
    /\ commit(lcl', dAccounts)
    /\ ret' = "true"
    /\ pc' = "idle"
    /\ succSince' = succSince + 1
    /\ UNCHANGED <<config, locals, dAccounts, code, payouts, pre, overflowHit,
                   dueAtClose>>

\* ------------------------------------------------------------ common budget

\* doApply with a COMMON_BUDGET_ACCOUNT_ID: commonBudgetInflationOpFrame up
\* to the return of INFLATION_NOT_TIME
commonBudgetBegin ==
    /\ cfg.COMMON_BUDGET_ACCOUNT_ID # ""
    /\ Begin("commonBudgetTally")

\* auto amountToDole = lcl.feePool * 7 / 10
commonBudgetDole(pool) == (pool * 7) \div 10

\* totalVotes less the fee pool and the excluded accounts that exist, the
\* tally, amountToDole; then the fee pool is emptied in the delta
commonBudgetTally ==
    /\ pc = "commonBudgetTally"
    /\ totalVotes' =
          lcl.totalCoins - lcl.feePool
          - SumBalances(dAccounts, cfg.COMMON_BUDGET_INFLATION_EXCLUDED_ACCOUNTS)
    /\ \E rows \in TallyRows(cfg.COMMON_BUDGET_INFLATION_MAX_ACCOUNTS,
                             cfg.COMMON_BUDGET_INFLATION_EXCLUDED_ACCOUNTS,
                             totalVotes') :
          winners' = KeepWinners(rows, cfg.COMMON_BUDGET_INFLATION_MIN_BALANCE)
    /\ amountToDole' = commonBudgetDole(lcl.feePool)
    /\ leftAfterDole' = lcl.feePool
    /\ lcl' = [lcl EXCEPT !.feePool = 0]
    /\ code' = "INFLATION_SUCCESS"
    /\ idx' = 0
    /\ pc' = "commonBudgetLoop"
    /\ UNCHANGED <<parent, config, history, dAccounts, inflationAmount, payouts,
                   ret, pre, overflowHit>>

\* one pass of the loop over winners
commonBudgetCredit ==
    /\ pc = "commonBudgetLoop"
    /\ idx < Len(winners)
    /\ LET w == winners[idx + 1]
           dest == w.mInflationDest
           amount == toDoleThisWinner(w)
       IN IF amount = 0 \/ ~Resolves(dAccounts, dest)
          THEN /\ idx' = idx + 1
               /\ UNCHANGED <<parent, history, pc, dAccounts, leftAfterDole,
                              payouts, ret, overflowHit>>
          ELSE LET r == addBalance(dAccounts[dest], amount)
               IN /\ leftAfterDole' = leftAfterDole - amount
                  /\ overflowHit' = (dAccounts[dest] + amount > INT64_MAX)
                  /\ IF creditThrows(r)
                     THEN /\ throw
                          /\ UNCHANGED <<idx, dAccounts, payouts>>
                     ELSE /\ dAccounts' = [dAccounts EXCEPT ![dest] = r.balance]
                          /\ payouts' = Append(payouts, Payout(dest, amount))
                          /\ idx' = idx + 1
                          /\ UNCHANGED <<parent, history, pc, ret>>
    /\ UNCHANGED <<config, lcl, winners, totalVotes, inflationAmount,
                   amountToDole, code, pre>>

\* mutant of amountToCommonBudget: the account gets the 30% share of what is
\* left, not all of it
amountToCommonBudget_Share(left) == (left * 3) \div 10

\* auto amountToCommonBudget = leftAfterDole
amountToCommonBudget(left) == left

\* after the loop: the leftover goes to the common budget account when it
\* exists, the sequence number advances, the delta commits
commonBudgetFinish ==
    /\ pc = "commonBudgetLoop"
    /\ idx = Len(winners)
    /\ LET cid == cfg.COMMON_BUDGET_ACCOUNT_ID
           amount == amountToCommonBudget(leftAfterDole)
       IN IF ~Resolves(dAccounts, cid)
          THEN /\ leftAfterDole' = leftAfterDole - amount
               /\ lcl' = [lcl EXCEPT !.inflationSeq = nextSeq(@)]
               /\ commit(lcl', dAccounts)
               /\ ret' = "true"
               /\ pc' = "idle"
               /\ succSince' = succSince + 1
               /\ UNCHANGED <<dAccounts, payouts, overflowHit, dueAtClose>>
          ELSE LET r == addBalance(dAccounts[cid], amount)
               IN IF creditThrows(r)
                  THEN /\ throw
                       /\ overflowHit' = (dAccounts[cid] + amount > INT64_MAX)
                       /\ UNCHANGED <<lcl, dAccounts, leftAfterDole, payouts>>
                  ELSE /\ dAccounts' = [dAccounts EXCEPT ![cid] = r.balance]
                       /\ payouts' = Append(payouts, Payout(cid, amount))
                       /\ leftAfterDole' = leftAfterDole - amount
                       /\ lcl' = [lcl EXCEPT !.inflationSeq = nextSeq(@)]
                       /\ commit(lcl', dAccounts')
                       /\ ret' = "true"
                       /\ pc' = "idle"
                       /\ succSince' = succSince + 1
                       /\ overflowHit' = (dAccounts[cid] + amount > INT64_MAX)
                       /\ UNCHANGED dueAtClose
    /\ UNCHANGED <<config, winners, idx, totalVotes, inflationAmount,
                   amountToDole, code, pre>>

\* ------------------------------------------------------------ environment

\* a later ledger closes: lcl.scpValue.closeTime moves forward
CloseLedger ==
    /\ pc = "idle"
    /\ \E t \in CloseTimes :
          /\ t > header.closeTime
          /\ header' = [header EXCEPT !.closeTime = t]
    /\ dueAtClose' = PeriodsDue(header')
    /\ succSince' = 0
    /\ UNCHANGED <<accounts, config, pc, lcl, dAccounts, locals, code, payouts,
                   ret, pre, overflowHit>>

Next ==
    \/ origBegin
    \/ origTally
    \/ origCredit
    \/ origFinish
    \/ commonBudgetBegin
    \/ commonBudgetTally
    \/ commonBudgetCredit
    \/ commonBudgetFinish
    \/ CloseLedger

Spec == Init /\ [][Next]_vars


\* ------------------------------------------------------------ claims

Legacy == cfg.COMMON_BUDGET_ACCOUNT_ID = ""

CommonBudget == cfg.COMMON_BUDGET_ACCOUNT_ID # ""

RECURSIVE SumAmounts(_)
SumAmounts(ps) ==
    IF ps = <<>> THEN 0 ELSE Head(ps).amount + SumAmounts(Tail(ps))

\* the nominal new issue of a run, from the total supply before it
PreInflationAmount ==
    (pre.header.totalCoins * INFLATION_RATE_BILLIONTHS) \div BILLION

\* the amount a run distributes and the votes it divides by, from the state
\* before the run
PreAmountToDole ==
    IF Legacy THEN PreInflationAmount + pre.header.feePool
    ELSE (pre.header.feePool * 7) \div 10

PreTotalVotes ==
    IF Legacy THEN pre.header.totalCoins
    ELSE pre.header.totalCoins - pre.header.feePool
         - SumBalances(pre.accounts, cfg.COMMON_BUDGET_INFLATION_EXCLUDED_ACCOUNTS)

\* the records of the winners that are paid: in the order of the tally, one
\* for each winner with a nonzero share and an existing destination
RECURSIVE WinnerRecords(_)
WinnerRecords(ws) ==
    IF ws = <<>> THEN <<>>
    ELSE LET w == Head(ws)
             share == (PreAmountToDole * w.mVotes) \div PreTotalVotes
         IN (IF share # 0 /\ w.mInflationDest \in DOMAIN pre.accounts
             THEN <<[destination |-> w.mInflationDest, amount |-> share]>>
             ELSE <<>>)
            \o WinnerRecords(Tail(ws))

RECURSIVE PaidTo(_, _)
PaidTo(ps, a) ==
    IF ps = <<>> THEN 0
    ELSE (IF Head(ps).destination = a THEN Head(ps).amount ELSE 0)
         + PaidTo(Tail(ps), a)

\* C1: an invocation returns INFLATION_NOT_TIME exactly when the close time
\* is before INFLATION_START_TIME + inflationSeq * INFLATION_FREQUENCY, and
\* then totalCoins, feePool, inflationSeq and every balance are as before.
C1_NotTimeIffEarly ==
    ret # "none" =>
       /\ (ret = "false" /\ code = "INFLATION_NOT_TIME")
             <=> (pre.header.closeTime < INFLATION_START_TIME
                     + pre.header.inflationSeq * INFLATION_FREQUENCY)
       /\ ret = "false" =>
             /\ header.totalCoins = pre.header.totalCoins
             /\ header.feePool = pre.header.feePool
             /\ header.inflationSeq = pre.header.inflationSeq
             /\ accounts = pre.accounts

C1_Witness ==
    /\ ret = "false"
    /\ code = "INFLATION_NOT_TIME"
    /\ header.feePool > 0
    /\ header.inflationSeq > 0

\* C2: after a successful legacy run the amounts paid out plus the fee pool
\* equal floor(totalCoins * rate) + feePool of the state before the run.
C2_LegacyDoleConserved ==
    (Legacy /\ ret = "true") =>
       SumAmounts(payouts) + header.feePool
          = PreInflationAmount + pre.header.feePool

C2_Witness ==
    /\ Legacy
    /\ ret = "true"
    /\ Len(payouts) = 1
    /\ Len(winners) = 2
    /\ PreInflationAmount > 0
    /\ header.feePool > 1

\* C3: after a successful common budget run, what the accounts were credited
\* together equals the fee pool before it was reset.
C3_CommonBudgetConserved ==
    (CommonBudget /\ ret = "true") =>
       SumBalances(accounts, DOMAIN accounts)
          = SumBalances(pre.accounts, DOMAIN pre.accounts) + pre.header.feePool

\* C4: after a successful legacy run totalCoins has grown by the payouts
\* made when the ledger version is at most 7, and by the nominal inflation
\* amount when it is above 7.
C4_TotalCoinsByVersion ==
    (Legacy /\ ret = "true") =>
       header.totalCoins =
          pre.header.totalCoins
          + (IF ledgerVersion <= 7 THEN SumAmounts(payouts)
             ELSE PreInflationAmount)

C4_Witness ==
    /\ Legacy
    /\ ret = "true"
    /\ ledgerVersion = 7
    /\ Len(payouts) = 1
    /\ Len(winners) = 2
    /\ SumAmounts(payouts) # PreInflationAmount

\* C5 as stated: the payouts of a success are exactly the records of the
\* paid winners, in tally order, each with a positive amount.
C5_PayoutsAreWinnerRecords ==
    ret = "true" =>
       /\ payouts = WinnerRecords(winners)
       /\ \A i \in 1..Len(payouts) : payouts[i].amount > 0

\* C5 amended: the payouts of a success are the records of the paid
\* winners, in tally order, each with a positive amount; a common budget
\* run whose common budget account exists adds one last record for that
\* account, with all that is left of the fee pool, which may be zero.
C5_PayoutsAmended ==
    ret = "true" =>
       LET ws == WinnerRecords(winners)
           cid == cfg.COMMON_BUDGET_ACCOUNT_ID
       IN /\ \A i \in 1..Len(ws) : ws[i].amount > 0
          /\ payouts =
                IF CommonBudget /\ cid \in DOMAIN pre.accounts
                THEN Append(ws, [destination |-> cid,
                                 amount |-> pre.header.feePool - SumAmounts(ws)])
                ELSE ws

C5_Witness ==
    /\ ret = "true"
    /\ CommonBudget
    /\ Len(winners) = 2
    /\ Len(payouts) = 2
    /\ payouts[1].destination # cfg.COMMON_BUDGET_ACCOUNT_ID
    /\ payouts[2].destination = cfg.COMMON_BUDGET_ACCOUNT_ID

\* C6: a credit that would pass INT64_MAX ends the run with the exception,
\* not with a result, and nothing the run did reaches the parent ledger.
C6_OverflowIsFatalAndAtomic ==
    /\ overflowHit =>
          /\ pc = "thrown"
          /\ ret = "threw"
    /\ pc = "thrown" =>
          /\ header = pre.header
          /\ accounts = pre.accounts

C6_Witness ==
    /\ pc = "thrown"
    /\ overflowHit
    /\ Len(payouts) = 1
    /\ dAccounts # accounts
    /\ lcl.feePool # header.feePool
    /\ lcl.inflationSeq # header.inflationSeq

\* C7: a run that is due with totalVotes <= 0 never succeeds.
C7_NoVotesRejected ==
    ret = "true" => PreTotalVotes > 0

\* C8 as stated: a successful common budget run leaves totalCoins alone,
\* changes only the balances of paid winners and of the common budget
\* account, and credits that account with exactly the fee pool before the
\* reset less the winners' payouts.
C8_CommonBudgetFrame ==
    (CommonBudget /\ ret = "true") =>
       LET ws == WinnerRecords(winners)
           cid == cfg.COMMON_BUDGET_ACCOUNT_ID
       IN /\ header.totalCoins = pre.header.totalCoins
          /\ DOMAIN accounts = DOMAIN pre.accounts
          /\ \A a \in DOMAIN accounts :
                IF a = cid
                THEN accounts[a] - pre.accounts[a]
                        = pre.header.feePool - SumAmounts(ws)
                ELSE accounts[a] - pre.accounts[a] = PaidTo(ws, a)

\* C8 amended: as stated, but the common budget account, when it is also a
\* paid winner, grows by its winner's payout as well.
C8_CommonBudgetFrameAmended ==
    (CommonBudget /\ ret = "true") =>
       LET ws == WinnerRecords(winners)
           cid == cfg.COMMON_BUDGET_ACCOUNT_ID
       IN /\ header.totalCoins = pre.header.totalCoins
          /\ DOMAIN accounts = DOMAIN pre.accounts
          /\ \A a \in DOMAIN accounts :
                IF a = cid
                THEN accounts[a] - pre.accounts[a]
                        = pre.header.feePool - SumAmounts(ws) + PaidTo(ws, a)
                ELSE accounts[a] - pre.accounts[a] = PaidTo(ws, a)

C8_Witness ==
    /\ CommonBudget
    /\ ret = "true"
    /\ cfg.COMMON_BUDGET_ACCOUNT_ID \in DOMAIN accounts
    /\ PaidTo(payouts, "a1") > 0
    /\ accounts["cb"] - pre.accounts["cb"] > 0
    /\ accounts["cb"] - pre.accounts["cb"] < pre.header.feePool

\* C9: inflationSeq is one more than before after a success and as before
\* after INFLATION_NOT_TIME, and no step lowers it or raises it by more
\* than one.
C9_SeqAdvancesByOne ==
    /\ [](/\ ret = "true" => header.inflationSeq = pre.header.inflationSeq + 1
          /\ ret = "false" => header.inflationSeq = pre.header.inflationSeq)
    /\ [][\/ header'.inflationSeq = header.inflationSeq
          \/ /\ header'.inflationSeq = header.inflationSeq + 1
             /\ ret' = "true"]_vars

C9_Witness ==
    /\ ret = "true"
    /\ header.inflationSeq = 2
    /\ pre.header.inflationSeq = 1

\* C10: while the close time stays as it is, the invocations that succeed
\* are at most the periods due when it was set, and an invocation returns
\* INFLATION_NOT_TIME only after exactly that many have succeeded.
C10_SuccessesBoundedByPeriods ==
    /\ [](succSince <= dueAtClose)
    /\ [][(pc = "idle" /\ pc' = "idle" /\ ret' = "false" /\ header' = header)
             => succSince = dueAtClose]_vars

C10_Witness ==
    /\ ret = "false"
    /\ succSince = 2
    /\ dueAtClose = 2

\* ------------------------------------------------------------ range of the model

\* The aggregates stay inside the int64_t range and bigDivide is only called
\* with a non-negative dividend and a positive divisor, so the signed sums of
\* the code and its divisions are defined wherever the model evaluates them.
ArithmeticInRange ==
    /\ \A h \in {header, lcl} :
          /\ h.totalCoins \in 0..INT64_MAX
          /\ h.feePool \in 0..INT64_MAX
    /\ amountToDole \in 0..INT64_MAX
    /\ leftAfterDole \in 0..INT64_MAX
    /\ \A a \in DOMAIN dAccounts : dAccounts[a] \in 0..INT64_MAX
    /\ winners # <<>> => totalVotes > 0

====
